---- MODULE Spec2Model ----
(***************************************************************************)
(* A model of beir's HFDataLoader (beir/datasets/data_loader_hf.py) and of  *)
(* the DPR embedding wrapper (beir/retrieval/models/dpr.py).                *)
(*                                                                         *)
(* Strings that the code takes apart or puts together (file names, paths,  *)
(* extensions) are tuples of pieces ("corpus", ".", "jsonl"), so that      *)
(* os.path.join, "+" and str.endswith are computed on the text, piece by   *)
(* piece.  Identifiers of documents and queries are plain strings: the     *)
(* cast of the "_id" column to string leaves a string as it is.            *)
(* A relevance score is kept in tenths (10 is 1.0, -15 is -1.5) so that    *)
(* the float column and int() are integer arithmetic.                      *)
(***************************************************************************)
EXTENDS Integers, Sequences, FiniteSets, TLC

VARIABLES
    \* configuration of the HFDataLoader (set by __init__, qrels_file by load)
    hf_repo, corpus_file, query_file, qrels_folder, qrels_file,
    sample, include_qrel_corpus_docs,
    \* the loader's data fields
    corpus, queries, qrels,
    \* the environment: the existing paths and the contents of the data files
    fs, rawCorpus, rawQueries, rawQrels,
    \* the outcome of the last call on the loader
    ret,
    \* one call of DPR.encode_queries / DPR.encode_corpus
    fn, items, batch_size, start_idx, output, batches, pc

loaderVars == <<hf_repo, corpus_file, query_file, qrels_folder, qrels_file,
                sample, include_qrel_corpus_docs, corpus, queries, qrels,
                fs, rawCorpus, rawQueries, rawQrels, ret>>
dprVars == <<fn, items, batch_size, start_idx, output, batches, pc>>
vars == <<loaderVars, dprVars>>

(***************************************************************************)
(* Bounds of the model.                                                    *)
(***************************************************************************)
MaxCorpus == 2
MaxRows == 2
MaxItems == 3
MaxBatch == 3

DocIds == {"d1", "d2"}
QIds == {"q1", "q2"}
Scores == {10, -15}
Samples == {50, 100}

Range(s) == {s[i] : i \in 1..Len(s)}
SeqsUpTo(S, lo, hi) == UNION {[1..n -> S] : n \in lo..hi}
Min(a, b) == IF a <= b THEN a ELSE b

(***************************************************************************)
(* Strings as tuples of pieces.                                            *)
(***************************************************************************)
Sep == <<"/">>
DataFolder == <<"data">>
CorpusJsonl == <<"corpus", ".", "jsonl">>
CorpusJson == <<"corpus", ".", "json">>
QueriesJsonl == <<"queries", ".", "jsonl">>
QueriesTxt == <<"queries", ".", "txt">>
QrelsName == <<"qrels">>
Jsonl == <<"jsonl">>
Tsv == <<"tsv">>
DotTsv == <<".", "tsv">>
DotCsv == <<".", "csv">>
Test == <<"test">>
Train == <<"train">>
Splits == {Test, Train}

\* os.path.join(a, b) for a relative b
Join(a, b) == a \o Sep \o b

\* str.endswith
EndsWith(s, ext) ==
    /\ Len(s) >= Len(ext)
    /\ SubSeq(s, Len(s) - Len(ext) + 1, Len(s)) = ext

(***************************************************************************)
(* HFDataLoader.check: the error it raises for a path, or NoError.         *)
(***************************************************************************)
NoError == [kind |-> "none", template |-> "", args |-> <<>>]
NotPresent == "File {} not present! Please provide accurate file."
WrongExt == "File {} must be present with extension {}"

\* check without the os.path.exists test
checkExtensionOnly(fIn, ext) ==
    IF ~EndsWith(fIn, ext)
    THEN [kind |-> "ValueError", template |-> WrongExt, args |-> <<fIn, ext>>]
    ELSE NoError

check(fIn, ext) ==
    IF fIn \notin fs
    THEN [kind |-> "ValueError", template |-> NotPresent, args |-> <<fIn>>]
    ELSE IF ~EndsWith(fIn, ext)
    THEN [kind |-> "ValueError", template |-> WrongExt, args |-> <<fIn, ext>>]
    ELSE NoError

\* the path load assigns to self.qrels_file
QrelsPath(split) == Join(qrels_folder, split \o DotTsv)

\* load checking the corpus file only, as load_corpus does
LoadChecksCorpusOnly(split) == << <<corpus_file, Jsonl>> >>

\* the checks of load, in order: (file, extension)
LoadChecks(split) ==
    << <<corpus_file, Jsonl>>, <<query_file, Jsonl>>, <<QrelsPath(split), Tsv>> >>

\* the checks of load_corpus
LoadCorpusChecks == << <<corpus_file, Jsonl>> >>

\* Runs the checks in order and stops at the first that raises:
\* the files examined and the error raised (NoError when all pass).
RECURSIVE RunChecks(_, _, _)
RunChecks(cs, i, seen) ==
    IF i > Len(cs) THEN [examined |-> seen, error |-> NoError]
    ELSE LET e == check(cs[i][1], cs[i][2])
         IN  IF e # NoError
             THEN [examined |-> Append(seen, cs[i][1]), error |-> e]
             ELSE RunChecks(cs, i + 1, Append(seen, cs[i][1]))

Checked(cs) ==
    IF hf_repo THEN [examined |-> <<>>, error |-> NoError]
    ELSE RunChecks(cs, 1, <<>>)

(***************************************************************************)
(* Parsing: _load_corpus, _load_queries, _load_qrels.                      *)
(***************************************************************************)
\* a line of corpus.jsonl / queries.jsonl: the i-th record of the file
RawDoc(id, i) == [_id |-> id, title |-> <<"title", i>>, text |-> <<"text", i>>,
                  metadata |-> <<"meta", i>>]
RawQuery(id, i) == [_id |-> id, text |-> <<"query", i>>, metadata |-> <<"meta", i>>]

\* rename "_id" to "id", keep only id/text/title
_load_corpus ==
    [i \in 1..Len(rawCorpus) |->
        [id |-> rawCorpus[i]._id, title |-> rawCorpus[i].title,
         text |-> rawCorpus[i].text]]

\* rename "_id" to "id", keep only id/text
_load_queries ==
    [i \in 1..Len(rawQueries) |->
        [id |-> rawQueries[i]._id, text |-> rawQueries[i].text]]

\* the rows of the split's qrels file: query-id, corpus-id, score (a float)
_load_qrels(split) == rawQrels[split]

\* int() of a float kept in tenths: truncation toward zero
IntOf(score) ==
    IF score >= 0 THEN score \div 10 ELSE -((-score) \div 10)

\* qrels_dict[...].setdefault(row['corpus-id'], int(row['score'])): the first row wins
qrels_dict_setdefault(d, row) ==
    LET q == row.qid
        inner == IF q \in DOMAIN d THEN d[q] ELSE [c \in {} |-> 0]
        inner2 == [c \in DOMAIN inner \cup {row.cid} |->
                    IF c \in DOMAIN inner THEN inner[c] ELSE IntOf(row.score)]
    IN  [k \in DOMAIN d \cup {q} |-> IF k = q THEN inner2 ELSE d[k]]

\* qrels_dict[row['query-id']][row['corpus-id']] = int(row['score'])
qrels_dict_init(d, row) ==
    LET q == row.qid
        inner == IF q \in DOMAIN d THEN d[q] ELSE [c \in {} |-> 0]
        inner2 == [c \in DOMAIN inner \cup {row.cid} |->
                    IF c = row.cid THEN IntOf(row.score) ELSE inner[c]]
    IN  [k \in DOMAIN d \cup {q} |-> IF k = q THEN inner2 ELSE d[k]]

\* self.qrels.map(qrels_dict_init): the rows in file order
RECURSIVE QrelsMap(_, _, _)
QrelsMap(rows, i, d) ==
    IF i > Len(rows) THEN d
    ELSE QrelsMap(rows, i + 1, qrels_dict_init(d, rows[i]))

EmptyDict == [q \in {} |-> 0]
QrelsDict(rows) == QrelsMap(rows, 1, EmptyDict)

\* self.queries.filter(lambda x: x['id'] in self.qrels)
FilterQueries(qs, d) == SelectSeq(qs, LAMBDA x : x.id \in DOMAIN d)

(***************************************************************************)
(* HFDataLoader._sample_corpus                                             *)
(***************************************************************************)
\* include_corpus_ids: the corpus ids of every judgment, when the flag is set
IncludeCorpusIds(d) ==
    IF include_qrel_corpus_docs
    THEN UNION {DOMAIN d[q] : q \in DOMAIN d}
    ELSE {}

\* self.corpus.filter(lambda example: example['id'] in include_corpus_ids)
FilteredDataset(c, d) == SelectSeq(c, LAMBDA x : x.id \in IncludeCorpusIds(d))

\* range(int(len(self.corpus) * self.sample / 100.0))
SampleSize(n) == (n * sample) \div 100

\* self.corpus.select(range(...)): a prefix of the corpus
SampledDataset(c) == SubSeq(c, 1, SampleSize(Len(c)))

\* merged_dataset.filter(is_unique): keeps an element when its id is not in
\* memory yet, and adds the id to memory
RECURSIVE IsUniqueFrom(_, _, _)
IsUniqueFrom(ds, i, memory) ==
    IF i > Len(ds) THEN <<>>
    ELSE IF ds[i].id \in memory
         THEN IsUniqueFrom(ds, i + 1, memory)
         ELSE <<ds[i]>> \o IsUniqueFrom(ds, i + 1, memory \cup {ds[i].id})

\* the merged dataset returned without the is_unique filter
NoDedupFilter(ds) == ds
IsUniqueFilter(ds) == IsUniqueFrom(ds, 1, {})

_sample_corpus(c, d) == IsUniqueFilter(FilteredDataset(c, d) \o SampledDataset(c))

(***************************************************************************)
(* HFDataLoader.load and HFDataLoader.load_corpus                          *)
(***************************************************************************)
NoValue == <<>>

\* the loader is as __init__ left it
Pristine == Len(corpus) = 0 /\ Len(queries) = 0 /\ DOMAIN qrels = {}

load(split) ==
    LET chk == Checked(LoadChecks(split))
        c1 == IF Len(corpus) = 0 THEN _load_corpus ELSE corpus
        q1 == IF Len(queries) = 0 THEN _load_queries ELSE queries
        d == QrelsDict(_load_qrels(split))
        q2 == FilterQueries(q1, d)
        c2 == IF sample < 100 THEN _sample_corpus(c1, d) ELSE c1
        parsed == (IF Len(corpus) = 0 THEN <<"corpus">> ELSE <<>>)
                  \o (IF Len(queries) = 0 THEN <<"queries">> ELSE <<>>)
                  \o <<"qrels">>
    IN  /\ qrels_file' = IF hf_repo THEN qrels_file ELSE QrelsPath(split)
        /\ IF chk.error # NoError
           THEN /\ UNCHANGED <<corpus, queries, qrels>>
                /\ ret' = [op |-> "load", split |-> split, fresh |-> Pristine,
                           status |-> chk.error.kind, msg |-> chk.error,
                           examined |-> chk.examined, parsed |-> <<>>,
                           corpus |-> NoValue, queries |-> NoValue, qrels |-> NoValue]
           ELSE /\ corpus' = c2
                /\ queries' = q2
                /\ qrels' = d
                \* self.queries[0] in the last log line raises on an empty result
                /\ ret' = [op |-> "load", split |-> split, fresh |-> Pristine,
                           status |-> IF Len(q2) = 0 THEN "IndexError" ELSE "returned",
                           msg |-> NoError,
                           examined |-> chk.examined, parsed |-> parsed,
                           corpus |-> IF Len(q2) = 0 THEN NoValue ELSE c2,
                           queries |-> IF Len(q2) = 0 THEN NoValue ELSE q2,
                           qrels |-> IF Len(q2) = 0 THEN NoValue ELSE d]
        /\ UNCHANGED <<hf_repo, corpus_file, query_file, qrels_folder, sample,
                       include_qrel_corpus_docs, fs, rawCorpus, rawQueries, rawQrels>>
        /\ UNCHANGED dprVars

Load == \E split \in Splits : load(split)

load_corpus ==
    LET chk == Checked(LoadCorpusChecks)
        c1 == IF Len(corpus) = 0 THEN _load_corpus ELSE corpus
    IN  /\ IF chk.error # NoError
           THEN /\ UNCHANGED corpus
                /\ ret' = [op |-> "load_corpus", split |-> <<>>, fresh |-> Pristine,
                           status |-> chk.error.kind, msg |-> chk.error,
                           examined |-> chk.examined, parsed |-> <<>>,
                           corpus |-> NoValue, queries |-> NoValue, qrels |-> NoValue]
           ELSE /\ corpus' = c1
                /\ ret' = [op |-> "load_corpus", split |-> <<>>, fresh |-> Pristine,
                           status |-> "returned", msg |-> NoError,
                           examined |-> chk.examined,
                           parsed |-> IF Len(corpus) = 0 THEN <<"corpus">> ELSE <<>>,
                           corpus |-> c1, queries |-> NoValue, qrels |-> NoValue]
        /\ UNCHANGED <<hf_repo, corpus_file, query_file, qrels_folder, qrels_file,
                       sample, include_qrel_corpus_docs, queries, qrels,
                       fs, rawCorpus, rawQueries, rawQrels>>
        /\ UNCHANGED dprVars

(***************************************************************************)
(* DPR.encode_queries and DPR.encode_corpus.  The pooled output of an      *)
(* encoder is a function of the one input sequence it summarises.          *)
(***************************************************************************)
QueryTexts == {"who", "why"}
Passages == {[title |-> "t1", text |-> "x"], [title |-> "t2", text |-> "y"]}

\* query_model(...).pooler_output for one tokenized query
QuestionPooled(q) == <<"dpr-question_encoder", q>>
\* context_model(...).pooler_output for one tokenized (title, text) pair
ContextPooled(title, text) == <<"dpr-ctx_encoder", title, text>>

\* xs[start_idx:start_idx+batch_size-1]: a slice one item short
ShortSlice(xs, start, size) == SubSeq(xs, start + 1, Min(start + size - 1, Len(xs)))
\* xs[start_idx:start_idx+batch_size], start_idx counted from 0
Slice(xs, start, size) == SubSeq(xs, start + 1, Min(start + size, Len(xs)))

\* the positions (from 1) of the slice in xs
SlicePositions(xs, start, size) ==
    [j \in 1..Len(Slice(xs, start, size)) |-> start + j]

\* one iteration of "for start_idx in trange(0, len(queries), batch_size)"
EncodeQueriesBatch ==
    /\ fn = "encode_queries"
    /\ pc = "loop"
    /\ start_idx < Len(items)
    /\ LET batch == Slice(items, start_idx, batch_size)
       IN  /\ output' = output \o [j \in 1..Len(batch) |-> QuestionPooled(batch[j])]
           /\ batches' = Append(batches, SlicePositions(items, start_idx, batch_size))
    /\ start_idx' = start_idx + batch_size
    /\ UNCHANGED <<fn, items, batch_size, pc>>
    /\ UNCHANGED loaderVars

\* One iteration of "for start_idx in trange(0, len(corpus), batch_size)"
EncodeCorpusBatch ==
    /\ fn = "encode_corpus"
    /\ pc = "loop"
    /\ start_idx < Len(items)
    /\ LET batch == Slice(items, start_idx, batch_size)
       IN  /\ output' = output \o
                  [j \in 1..Len(batch) |-> ContextPooled(batch[j].title, batch[j].text)]
           /\ batches' = Append(batches, SlicePositions(items, start_idx, batch_size))
    /\ start_idx' = start_idx + batch_size
    /\ UNCHANGED <<fn, items, batch_size, pc>>
    /\ UNCHANGED loaderVars

\* torch.stack(output) raises on an empty list; then the row-count assertion
Stacked ==
    IF Len(output) = 0 THEN "RuntimeError"
    ELSE IF Len(output) = Len(items) THEN "returned"
    ELSE "AssertionError"

EncodeQueriesFinish ==
    /\ fn = "encode_queries"
    /\ pc = "loop"
    /\ start_idx >= Len(items)
    /\ pc' = Stacked
    /\ UNCHANGED <<fn, items, batch_size, start_idx, output, batches>>
    /\ UNCHANGED loaderVars

EncodeCorpusFinish ==
    /\ fn = "encode_corpus"
    /\ pc = "loop"
    /\ start_idx >= Len(items)
    /\ pc' = Stacked
    /\ UNCHANGED <<fn, items, batch_size, start_idx, output, batches>>
    /\ UNCHANGED loaderVars

(***************************************************************************)
(* Initial states.                                                         *)
(***************************************************************************)
\* the files of a complete data folder
CorpusPath == Join(DataFolder, CorpusJsonl)
QueriesPath == Join(DataFolder, QueriesJsonl)
QrelsFolder == Join(DataFolder, QrelsName)
CompleteFolder ==
    {CorpusPath, QueriesPath} \cup {Join(QrelsFolder, s \o DotTsv) : s \in Splits}

\* the paths a data folder of the model may hold
PathUniverse ==
    CompleteFolder
    \cup {Join(DataFolder, CorpusJson), Join(DataFolder, QueriesTxt),
          Join(QrelsFolder, Test \o DotCsv)}

CorpusOf(ids) == [i \in 1..Len(ids) |-> RawDoc(ids[i], i)]
QueriesOf(ids) == [i \in 1..Len(ids) |-> RawQuery(ids[i], i)]
Row(q, c, s) == [qid |-> q, cid |-> c, score |-> s]

QSeq == <<"q1", "q2">>
DSeq == <<"d1", "d2">>
\* the query files: the first n queries
QueryFiles == {QueriesOf(SubSeq(QSeq, 1, n)) : n \in 1..Len(QSeq)}

\* the judgments of score 1.0 in a fixed file order
UnitRows ==
    [k \in 1..(Len(QSeq) * Len(DSeq)) |->
        Row(QSeq[((k - 1) \div Len(DSeq)) + 1], DSeq[((k - 1) % Len(DSeq)) + 1], 10)]
\* the qrels files made of judgments of score 1.0 on documents of the corpus
UnitFiles(ids) ==
    {SelectSeq(UnitRows, LAMBDA r : r \in S) :
        S \in SUBSET {r \in Range(UnitRows) : r.cid \in Range(ids)}}

\* __init__ without hf_repo and prefix: the paths under data_folder
InitPaths(corpus_arg, query_arg) ==
    /\ corpus_file = Join(DataFolder, corpus_arg)
    /\ query_file = Join(DataFolder, query_arg)
    /\ qrels_folder = Join(DataFolder, QrelsName)
    /\ qrels_file = <<>>

InitFields ==
    /\ corpus = <<>>
    /\ queries = <<>>
    /\ qrels = EmptyDict
    /\ ret = [op |-> "none", split |-> <<>>, fresh |-> TRUE, status |-> "none",
              msg |-> NoError, examined |-> <<>>, parsed |-> <<>>,
              corpus |-> NoValue, queries |-> NoValue, qrels |-> NoValue]

IdleDPR ==
    /\ fn = "none"
    /\ items = <<>>
    /\ batch_size = 1
    /\ start_idx = 0
    /\ output = <<>>
    /\ batches = <<>>
    /\ pc = "idle"

\* a complete local folder: every corpus, every pair of qrels files of unit score
InitSplits ==
    /\ hf_repo = FALSE
    /\ InitPaths(CorpusJsonl, QueriesJsonl)
    /\ fs = CompleteFolder
    /\ sample \in Samples
    /\ include_qrel_corpus_docs \in (IF sample < 100 THEN BOOLEAN ELSE {TRUE})
    /\ \E ids \in SeqsUpTo(DocIds, 1, MaxCorpus) :
          /\ rawCorpus = CorpusOf(ids)
          /\ rawQrels \in [Splits -> UnitFiles(ids)]
    /\ rawQueries \in QueryFiles

\* a complete local folder: qrels files with repeated pairs and other scores
InitScores ==
    /\ hf_repo = FALSE
    /\ InitPaths(CorpusJsonl, QueriesJsonl)
    /\ fs = CompleteFolder
    /\ sample \in Samples
    /\ include_qrel_corpus_docs = TRUE
    /\ rawCorpus = CorpusOf(DSeq)
    /\ rawQueries \in QueryFiles
    /\ \E rows \in SeqsUpTo({Row(q, c, s) : q \in QIds, c \in DocIds, s \in Scores},
                            1, MaxRows) :
          rawQrels = [s \in Splits |-> IF s = Test THEN rows ELSE <<>>]

\* any folder content and file names, local or with a remote repository
InitFiles ==
    /\ hf_repo \in BOOLEAN
    /\ \E c \in {CorpusJsonl, CorpusJson}, q \in {QueriesJsonl, QueriesTxt} :
          InitPaths(c, q)
    /\ fs \in SUBSET PathUniverse
    /\ sample = 100
    /\ include_qrel_corpus_docs = TRUE
    /\ rawCorpus = CorpusOf(DSeq)
    /\ rawQueries = QueriesOf(<<"q1">>)
    /\ rawQrels = [s \in Splits |-> <<Row("q1", "d1", 10)>>]

Init ==
    /\ InitSplits \/ InitScores \/ InitFiles
    /\ InitFields
    /\ IdleDPR

Next == Load \/ load_corpus

Spec == Init /\ [][Next]_vars

\* one call of encode_queries or encode_corpus on any list and batch size
InitDPR ==
    /\ hf_repo = FALSE
    /\ InitPaths(CorpusJsonl, QueriesJsonl)
    /\ fs = {}
    /\ sample = 100
    /\ include_qrel_corpus_docs = TRUE
    /\ rawCorpus = <<>>
    /\ rawQueries = <<>>
    /\ rawQrels = [s \in Splits |-> <<>>]
    /\ InitFields
    /\ \/ fn = "encode_queries" /\ items \in SeqsUpTo(QueryTexts, 0, MaxItems)
       \/ fn = "encode_corpus" /\ items \in SeqsUpTo(Passages, 0, MaxItems)
    /\ batch_size \in 1..MaxBatch
    /\ start_idx = 0
    /\ output = <<>>
    /\ batches = <<>>
    /\ pc = "loop"

NextDPR ==
    \/ EncodeQueriesBatch
    \/ EncodeQueriesFinish
    \/ EncodeCorpusBatch
    \/ EncodeCorpusFinish

SpecDPR == InitDPR /\ [][NextDPR]_vars

(***************************************************************************)
(* Properties.                                                             *)
(***************************************************************************)
Returned == ret.op = "load" /\ ret.status = "returned"

\* no two records of a table have the same id
NoRepeatedId(ds) == \A i, j \in 1..Len(ds) : ds[i].id = ds[j].id => i = j

\* the corpus ids that the judgments of a qrels mapping refer to
Referenced(d) == UNION {DOMAIN d[q] : q \in DOMAIN d}

\* the elements of ds whose id does not occur earlier in ds
FirstOccurrences(ds) ==
    LET keep == {i \in 1..Len(ds) : \A j \in 1..(i - 1) : ds[j].id # ds[i].id}
        pos == [k \in 1..Cardinality(keep) |->
                  CHOOSE i \in keep : Cardinality({j \in keep : j < i}) = k - 1]
    IN  [k \in 1..Cardinality(keep) |-> ds[pos[k]]]

\* what the query file and the corpus file hold, as tables
RawQueryTable ==
    [i \in 1..Len(rawQueries) |-> [id |-> rawQueries[i]._id, text |-> rawQueries[i].text]]
RawCorpusTable ==
    [i \in 1..Len(rawCorpus) |->
        [id |-> rawCorpus[i]._id, title |-> rawCorpus[i].title, text |-> rawCorpus[i].text]]

\* C1: every load, also one on a loader that has loaded before, returns
\* exactly the records of the raw query file whose id is a key of the qrels
\* mapping of that call.
C1_QueriesAreTheJudgedRawQueries ==
    Returned =>
        ret.queries = SelectSeq(RawQueryTable, LAMBDA x : x.id \in DOMAIN ret.qrels)

\* C2: with include_qrel_corpus_docs set and sample < 100, every corpus id of
\* the returned qrels is the id of a document of the returned corpus,
\* whatever calls preceded the load.
C2_JudgedDocsAreRetained ==
    (Returned /\ include_qrel_corpus_docs /\ sample < 100) =>
        \A c \in Referenced(ret.qrels) : \E i \in 1..Len(ret.corpus) : ret.corpus[i].id = c

\* C3: a load with sample < 100 returns a corpus in which no two documents
\* have the same id.
C3_SampledCorpusHasNoRepeatedId ==
    (Returned /\ sample < 100) => NoRepeatedId(ret.corpus)

\* C3 witness: a sampled load of a corpus file with a repeated id, where the
\* judged documents and the prefix slice overlap.
C3_Witness ==
    /\ Returned
    /\ ret.fresh
    /\ sample < 100
    /\ ~NoRepeatedId(RawCorpusTable)
    /\ \E i \in 1..SampleSize(Len(RawCorpusTable)) :
          RawCorpusTable[i].id \in Referenced(ret.qrels)
    /\ include_qrel_corpus_docs
    /\ Len(ret.corpus) >= 1

\* C4: encode_queries on N queries returns exactly N rows, row i the pooled
\* vector of query i, for every N and every batch size.
C4_EncodeQueriesReturnsOneRowPerQuery ==
    (fn = "encode_queries" /\ pc # "loop") =>
        /\ pc = "returned"
        /\ Len(output) = Len(items)
        /\ \A i \in 1..Len(items) : output[i] = QuestionPooled(items[i])

\* the positions visited by the batches so far, in the order of the visits
RECURSIVE Flatten(_)
Flatten(bs) == IF bs = <<>> THEN <<>> ELSE Head(bs) \o Flatten(Tail(bs))

\* C9: the loop of encode_corpus visits every index once, in increasing
\* order, in batches of at most batch_size documents; the row-count assertion
\* holds whenever it is reached, and row i is the pooled vector of document i.
C9_EncodeCorpusLoopCoversEveryIndex ==
    fn = "encode_corpus" =>
        /\ pc # "AssertionError"
        /\ Flatten(batches) = [i \in 1..Min(start_idx, Len(items)) |-> i]
        /\ \A k \in 1..Len(batches) : Len(batches[k]) \in 1..batch_size
        /\ Len(output) = Len(Flatten(batches))
        /\ pc # "loop" => Len(Flatten(batches)) = Len(items)
        /\ pc = "returned" =>
              /\ Len(output) = Len(items)
              /\ \A i \in 1..Len(items) :
                    output[i] = ContextPooled(items[i].title, items[i].text)

\* C9 witness: encode_corpus has returned after more than one batch, the
\* last one shorter than batch_size.
C9_Witness ==
    /\ fn = "encode_corpus"
    /\ pc = "returned"
    /\ Len(batches) >= 2
    /\ Len(batches[Len(batches)]) < batch_size
    /\ \E i, j \in 1..Len(items) : items[i] # items[j]

\* the files load checks, as the folder holds them
CorpusFileBad == corpus_file \notin fs \/ ~EndsWith(corpus_file, Jsonl)
QueryFileBad == query_file \notin fs \/ ~EndsWith(query_file, Jsonl)
QrelsFileBad(split) == Join(qrels_folder, split \o DotTsv) \notin fs

CsvInsteadOfTsv ==
    /\ ~hf_repo
    /\ ~CorpusFileBad
    /\ ~QueryFileBad
    /\ Join(qrels_folder, Test \o DotCsv) \in fs
    /\ Join(qrels_folder, Test \o DotTsv) \notin fs

\* C6 as stated: with test.csv in place of test.tsv, load("test") raises a
\* configuration error whose message is the one citing the expected
\* extension tsv, not the file-not-present one.
C6_CsvRaisesExtensionError ==
    (CsvInsteadOfTsv /\ ret.op = "load" /\ ret.split = Test) =>
        /\ ret.status = "ValueError"
        /\ ret.msg.template = WrongExt
        /\ ret.msg.args[2] = Tsv

\* C6 amended: with test.csv in place of test.tsv, load("test") raises a
\* configuration error, and it is the file-not-present error naming the
\* expected file qrels/test.tsv.
C6_CsvRaisesNotPresentError ==
    (CsvInsteadOfTsv /\ ret.op = "load" /\ ret.split = Test) =>
        /\ ret.status = "ValueError"
        /\ ret.msg.template = NotPresent
        /\ ret.msg.args = <<Join(qrels_folder, Test \o DotTsv)>>

\* C6 witness: load("test") has been called on such a folder.
C6_Witness ==
    /\ CsvInsteadOfTsv
    /\ ret.op = "load"
    /\ ret.split = Test
    /\ ret.status = "ValueError"

Abs(n) == IF n >= 0 THEN n ELSE -n
\* the integer part of a score kept in tenths: 1.0 is 1, -1.5 is -1
IntegerPart(s) ==
    CHOOSE k \in -Abs(s)..Abs(s) :
        IF s >= 0 THEN k * 10 <= s /\ s < (k + 1) * 10
        ELSE k * 10 >= s /\ s > (k - 1) * 10

\* every pair of the mapping comes from a row of the file
OnlyPairsOfRows(d, rows) ==
    \A q \in DOMAIN d : \A c \in DOMAIN d[q] :
        \E i \in 1..Len(rows) : rows[i].qid = q /\ rows[i].cid = c

\* the end-to-end case: a corpus of 2 documents, 1 query and one row of
\* score 1 linking them, loaded with the default sample of 100
EndToEndCase ==
    /\ ret.op = "load"
    /\ ret.status \in {"returned", "IndexError"}
    /\ sample = 100
    /\ Len(rawCorpus) = 2
    /\ Len(rawQueries) = 1
    /\ Len(rawQrels[ret.split]) = 1
    /\ rawQrels[ret.split][1].qid = rawQueries[1]._id
    /\ rawQrels[ret.split][1].score = 10

EndToEndResult ==
    /\ ret.status = "returned"
    /\ Len(ret.corpus) = 2
    /\ Len(ret.queries) = 1
    /\ ret.qrels = (rawQueries[1]._id :> (rawQrels[ret.split][1].cid :> 1))

\* C7 as stated: the returned qrels hold, for every row (q, c, score) of the
\* split's file, qrels[q][c] = int(score), and no pair that is not in a row;
\* the end-to-end case gives 2 documents, 1 query and {q: {c: 1}}.
C7_EveryRowIsAnEntry ==
    /\ Returned =>
          LET rows == rawQrels[ret.split]
          IN  /\ \A i \in 1..Len(rows) :
                    /\ rows[i].qid \in DOMAIN ret.qrels
                    /\ rows[i].cid \in DOMAIN ret.qrels[rows[i].qid]
                    /\ ret.qrels[rows[i].qid][rows[i].cid] = IntegerPart(rows[i].score)
              /\ OnlyPairsOfRows(ret.qrels, rows)
    /\ EndToEndCase => EndToEndResult

\* row i is the last row of the file for its (query-id, corpus-id) pair
LastForPair(rows, i) ==
    \A j \in (i + 1)..Len(rows) :
        ~(rows[j].qid = rows[i].qid /\ rows[j].cid = rows[i].cid)

\* C7 amended: the returned qrels hold, for every row (q, c, score) that is
\* the last row of the split's file for its pair (q, c), qrels[q][c] =
\* int(score), and no pair that is not in a row; the end-to-end case, with
\* the default sample of 100, gives 2 documents, 1 query and {q: {c: 1}}.
C7_LastRowOfAPairIsTheEntry ==
    /\ Returned =>
          LET rows == rawQrels[ret.split]
          IN  /\ \A i \in 1..Len(rows) :
                    LastForPair(rows, i) =>
                        /\ rows[i].qid \in DOMAIN ret.qrels
                        /\ rows[i].cid \in DOMAIN ret.qrels[rows[i].qid]
                        /\ ret.qrels[rows[i].qid][rows[i].cid] = IntegerPart(rows[i].score)
              /\ OnlyPairsOfRows(ret.qrels, rows)
    /\ EndToEndCase => EndToEndResult

\* C7 witness: a load has returned the qrels of a file in which a pair is
\* repeated with another score, a negative fractional one among them.
C7_Witness ==
    /\ Returned
    /\ LET rows == rawQrels[ret.split]
       IN  \E i, j \in 1..Len(rows) :
              /\ i < j
              /\ rows[i].qid = rows[j].qid
              /\ rows[i].cid = rows[j].cid
              /\ rows[i].score = 10
              /\ rows[j].score = -15

\* the corpus that sampling the full raw corpus gives for a qrels mapping
SampleOfRawCorpus(d) ==
    LET full == RawCorpusTable
        wanted == IF include_qrel_corpus_docs THEN Referenced(d) ELSE {}
        judged == SelectSeq(full, LAMBDA x : x.id \in wanted)
        prefix == [i \in 1..((sample * Len(full)) \div 100) |-> full[i]]
    IN  FirstOccurrences(judged \o prefix)

\* C8: with sample < 100 the returned corpus is the first-occurrence
\* deduplication of (the judged documents of the full raw corpus, if the flag
\* is set) followed by (the first floor(sample * n / 100) documents of the
\* full raw corpus); with sample = 100 it is the raw corpus.
C8_SampleIsTakenFromTheRawCorpus ==
    Returned =>
        ret.corpus = IF sample < 100 THEN SampleOfRawCorpus(ret.qrels) ELSE RawCorpusTable

\* what load(split) does on a loader as __init__ left it
FreshQrels(split) == QrelsDict(_load_qrels(split))
FreshQueries(split) == FilterQueries(_load_queries, FreshQrels(split))
FreshCorpus(split) ==
    IF sample < 100 THEN _sample_corpus(_load_corpus, FreshQrels(split)) ELSE _load_corpus

\* C10: a load after earlier calls on the same loader returns the corpus,
\* queries and qrels that a fresh loader returns for that split.
C10_LoadDoesNotDependOnEarlierCalls ==
    Returned =>
        /\ ret.corpus = FreshCorpus(ret.split)
        /\ ret.queries = FreshQueries(ret.split)
        /\ ret.qrels = FreshQrels(ret.split)
====
